---------------------------- MODULE Spec2Model ----------------------------
(***************************************************************************)
(* Model of the VehicleOCR component (src/src/components/VehicleOCR.tsx):  *)
(* the two OCR adapters with their plate extraction, the orchestrator      *)
(* extractVehicleNumber, the file-upload and camera handlers and the       *)
(* React state they drive.                                                 *)
(* The lookup and the submit of the vehicle entry form                     *)
(* (src/src/components/VehicleEntryForm.tsx) follow in a section of their  *)
(* own.                                                                    *)
(*                                                                         *)
(* A JavaScript string is a sequence of one-character strings; a value of  *)
(* type "string | null" is a sequence holding zero (null) or one string.   *)
(* Every handler, and every continuation of an async handler after an      *)
(* await, is one action; the action includes the React commit its          *)
(* setState calls cause and the effect cleanup that commit runs.           *)
(***************************************************************************)
EXTENDS Integers, Sequences, FiniteSets, TLC

----------------------------------------------------------------------------
(* Characters and strings *)

UpperSeq == << "A","B","C","D","E","F","G","H","I","J","K","L","M",
               "N","O","P","Q","R","S","T","U","V","W","X","Y","Z" >>

LowerSeq == << "a","b","c","d","e","f","g","h","i","j","k","l","m",
               "n","o","p","q","r","s","t","u","v","w","x","y","z" >>

Upper == { UpperSeq[i] : i \in DOMAIN UpperSeq }

Lower == { LowerSeq[i] : i \in DOMAIN LowerSeq }

Digit == { "0","1","2","3","4","5","6","7","8","9" }

\* what \s matches among the characters used here
Whitespace == { " ", "\n", "\t" }

\* [A-Z] under the i flag
LetterI == Upper \cup Lower

\* [A-Z0-9] under the i flag
AlnumI == LetterI \cup Digit

None == << >>

Some(s) == << s >>

\* JavaScript truthiness of a "string | null": null and '' are falsy
Truthy(v) == v /= None /\ v[1] /= << >>

\* the upper-casing left out
ToUpperChar_Same(c) == c

\* String.prototype.toUpperCase on one character
ToUpperChar(c) ==
  IF c \in Lower
    THEN UpperSeq[CHOOSE i \in DOMAIN LowerSeq : LowerSeq[i] = c]
    ELSE c

toUpperCase(s) == [ i \in DOMAIN s |-> ToUpperChar(s[i]) ]

\* the text taken as it is
CleanText_Kept(text) == text

\* text.replace(/\s+/g, '').replace(/\n/g, '')
CleanText(text) ==
  LET noWs == SelectSeq(text, LAMBDA c : c \notin Whitespace)
  IN  SelectSeq(noWs, LAMBDA c : c /= "\n")

----------------------------------------------------------------------------
(* Regular expressions: a pattern is a sequence of pieces, each a          *)
(* character class with a {min,max} quantifier.  Matching is JavaScript's: *)
(* the leftmost start position wins, every quantifier is greedy, and a     *)
(* piece gives characters back when the rest of the pattern fails.         *)

Piece(cls, lo, hi) == [ cls |-> cls, min |-> lo, max |-> hi ]

RECURSIVE RunLen(_, _, _, _)
\* number of consecutive characters of cls from position i, at most cap
RunLen(s, i, cls, cap) ==
  IF cap = 0 \/ i > Len(s) \/ s[i] \notin cls
    THEN 0
    ELSE 1 + RunLen(s, i + 1, cls, cap - 1)

RECURSIVE MatchEnd(_, _, _, _)
RECURSIVE TryCount(_, _, _, _, _)
\* the position after the match of pieces k.. of pat starting at i, or 0
MatchEnd(s, i, pat, k) ==
  IF k > Len(pat)
    THEN i
    ELSE LET n == RunLen(s, i, pat[k].cls, pat[k].max)
         IN  TryCount(s, i, pat, k, n)

TryCount(s, i, pat, k, n) ==
  IF n < pat[k].min
    THEN 0
    ELSE LET e == MatchEnd(s, i + n, pat, k + 1)
         IN  IF e /= 0 THEN e ELSE TryCount(s, i, pat, k, n - 1)

\* the match of one of the alternatives alts at position i: [from, to] or None
MatchAt(s, i, alts) ==
  LET hit == { a \in DOMAIN alts : MatchEnd(s, i, alts[a], 1) /= 0 }
  IN  IF hit = {}
        THEN None
        ELSE LET a == CHOOSE x \in hit : \A y \in hit : x <= y
             IN  Some(SubSeq(s, i, MatchEnd(s, i, alts[a], 1) - 1))

\* String.prototype.match without the g flag: match[0] of the first match
Match(s, alts) ==
  LET starts == { i \in 1..Len(s) : MatchAt(s, i, alts) /= None }
  IN  IF starts = {}
        THEN None
        ELSE MatchAt(s, CHOOSE i \in starts : \A j \in starts : i <= j, alts)

\* /[A-Z]{2}[0-9]{2}[A-Z]{1,2}[0-9]{4}/i
StrictPattern ==
  << << Piece(LetterI, 2, 2), Piece(Digit, 2, 2),
        Piece(LetterI, 1, 2), Piece(Digit, 4, 4) >> >>

\* the broad pattern stopping at twelve characters
BroadPattern_UpTo12 == << << Piece(AlnumI, 8, 12) >> >>

\* /[A-Z0-9]{8,13}/i
BroadPattern == << << Piece(AlnumI, 8, 13) >> >>

\* the extraction with the pattern matching left out
ExtractPlate_WholeText(text) == Some(text)

\* The extraction both adapters apply to the recognised text
ExtractPlate(text) ==
  LET cleanText  == CleanText(text)
      match      == Match(cleanText, StrictPattern)
      broadMatch == Match(cleanText, BroadPattern)
  IN  IF match /= None THEN Some(toUpperCase(match[1]))
      ELSE IF broadMatch /= None THEN Some(toUpperCase(broadMatch[1]))
      ELSE None

----------------------------------------------------------------------------
(* Texts a backend may recognise *)

T_Empty == << >>

T_Blank == << " ", "\n" >>

T_X1 == << "X", "1" >>

\* "MH12AB1234\n"
T_PlateNl == << "M","H","1","2","A","B","1","2","3","4","\n" >>

\* "MH 12 AB 1234"
T_PlateSpaced == << "M","H"," ","1","2"," ","A","B"," ","1","2","3","4" >>

\* "ka01ef9012"
T_PlateLower == << "k","a","0","1","e","f","9","0","1","2" >>

\* "KA01EF9012"
T_PlateUpper == << "K","A","0","1","E","F","9","0","1","2" >>

\* "MH1A123": one digit after the state letters, three at the end
T_ShortPlate == << "M","H","1","A","1","2","3" >>

\* "ZZMH1AB12345"
T_LongPlate == << "Z","Z","M","H","1","A","B","1","2","3","4","5" >>

\* "ABCDEFGHIJKLM"
T_Thirteen == << "A","B","C","D","E","F","G","H","I","J","K","L","M" >>

\* "no plate"
T_NoPlate == << "n","o"," ","p","l","a","t","e" >>

\* "no plate visible"
T_NoPlateVisible ==
  << "n","o"," ","p","l","a","t","e"," ","v","i","s","i","b","l","e" >>

RawTexts ==
  { T_NoPlateVisible, T_Empty, T_Blank, T_X1, T_PlateNl, T_PlateSpaced, T_PlateLower,
    T_PlateUpper, T_ShortPlate, T_LongPlate, T_Thirteen, T_NoPlate }

\* ExtractPlate of every text a backend may recognise, computed once
ExtractedPlate == [ text \in RawTexts |-> ExtractPlate(text) ]

----------------------------------------------------------------------------
(* What the remote service and the local engine may answer *)

\* fetch() and response.json(): the promise settles, the status, the body
PrimaryResponse(net, ok, json, exit, results, text) ==
  [ net |-> net, ok |-> ok, json |-> json, exit |-> exit,
    results |-> results, text |-> text ]

NoResponse == PrimaryResponse("none", FALSE, "none", 0, "none", << >>)

PrimaryFailures ==
  { PrimaryResponse("reject", FALSE, "none", 0, "none", << >>),
    PrimaryResponse("ok", FALSE, "none", 0, "none", << >>),
    PrimaryResponse("ok", TRUE, "invalid", 0, "none", << >>),
    PrimaryResponse("ok", TRUE, "valid", 3, "text", T_PlateNl),
    PrimaryResponse("ok", TRUE, "valid", 1, "missing", << >>),
    PrimaryResponse("ok", TRUE, "valid", 1, "empty", << >>),
    PrimaryResponse("ok", TRUE, "valid", 1, "notext", << >>) }

PrimaryTexts(texts) ==
  { PrimaryResponse("ok", TRUE, "valid", 1, "text", t) : t \in texts }

\* Tesseract.recognize(): the promise settles, the shape of its value
FallbackResponse(kind, text) == [ kind |-> kind, text |-> text ]

NoFallbackResponse == FallbackResponse("none", << >>)

FallbackFailures ==
  { FallbackResponse("reject", << >>), FallbackResponse("malformed", << >>) }

FallbackTexts(texts) == { FallbackResponse("text", t) : t \in texts }

\* what a function body hands to its caller: a value, or a thrown error
Return(v) == [ thrown |-> FALSE, value |-> v ]

Throw == [ thrown |-> TRUE, value |-> None ]

\* the adapter without its catch block
CatchReturnNull_Rethrow(body) == body

\* try { body } catch (error) { return null; }
CatchReturnNull(body) == IF body.thrown THEN Return(None) ELSE body

\* the exit code not looked at
ServiceOk_AnyExit(resp) == resp.results \in {"notext", "text"}

\* result.OCRExitCode === 1 && result.ParsedResults &&
\* result.ParsedResults.length > 0
ServiceOk(resp) == resp.exit = 1 /\ resp.results \in {"notext", "text"}

\* the try block returning the cleaned text when no pattern matches
OCRSpaceBody_RawText(resp) ==
  IF resp.net = "reject" THEN Throw
  ELSE IF ~resp.ok THEN Throw
  ELSE IF resp.json = "invalid" THEN Throw
  ELSE IF ServiceOk(resp)
    THEN IF resp.results = "notext"
           THEN Throw
           ELSE IF ExtractedPlate[resp.text] /= None
             THEN Return(ExtractedPlate[resp.text])
             ELSE Return(Some(CleanText(resp.text)))
    ELSE Return(None)

\* the try block of extractVehicleNumberWithOCRSpace: fetch rejects, the
\* status is not ok, the body is no JSON, ParsedResults[0] has no ParsedText
\* (a TypeError), or the text goes through the extraction
OCRSpaceBody(resp) ==
  IF resp.net = "reject" THEN Throw
  ELSE IF ~resp.ok THEN Throw
  ELSE IF resp.json = "invalid" THEN Throw
  ELSE IF ServiceOk(resp)
    THEN IF resp.results = "notext"
           THEN Throw
           ELSE Return(ExtractedPlate[resp.text])
    ELSE Return(None)

extractVehicleNumberWithOCRSpace(resp) == CatchReturnNull(OCRSpaceBody(resp))

\* the try block returning the cleaned text when no pattern matches
TesseractBody_RawText(resp) ==
  IF resp.kind \in {"reject", "malformed"}
    THEN Throw
    ELSE IF ExtractedPlate[resp.text] /= None
      THEN Return(ExtractedPlate[resp.text])
      ELSE Return(Some(CleanText(resp.text)))

\* the try block of extractVehicleNumberWithTesseract
TesseractBody(resp) ==
  IF resp.kind \in {"reject", "malformed"}
    THEN Throw
    ELSE Return(ExtractedPlate[resp.text])

extractVehicleNumberWithTesseract(resp) == CatchReturnNull(TesseractBody(resp))

----------------------------------------------------------------------------
(* Bounds *)

\* detection runs in flight, or about to start from a pending capture, at a time
MaxRuns == 2

\* getUserMedia requests issued in one behaviour
MaxStreams == 2

\* whitespace characters put into or taken out of one recognised text
MaxEdits == 2

----------------------------------------------------------------------------
(* State *)

VARIABLES
  mounted,        \* the component instance is mounted
  isProcessing,   \* useState(false)
  detectedNumber, \* useState('')
  previewImage,   \* useState(''): "", "data" (a data URL) or "blob" (an object URL)
  isCameraOpen,   \* useState(false)
  stream,         \* useState(null): 0 is null, otherwise the id of a MediaStream
  ocrMethod,      \* useState('')
  tracks,         \* per MediaStream id: "none" (not obtained), "live", "stopped"
  gumPending,     \* startCamera calls waiting for getUserMedia
  obtained,       \* MediaStreams getUserMedia has handed out
  blobQueue,      \* canvas.toBlob callbacks not yet fired: how many of them hold
                  \* the stopCamera that closes over stream s
  readerPending,  \* FileReader loads not yet delivered
  runs,           \* the extractVehicleNumber invocations in flight, in order of
                  \* start, and with them the one that ended last if none
                  \* started since
  lastToast,      \* title of the latest toast, followed by its description where
                  \* two toasts share the title
  sourceText,     \* a text as a backend recognised it
  rawText,        \* that text with whitespace put in or taken out
  edits,          \* whitespace characters put in or taken out so far
  extracted,      \* the extraction has run on rawText as it stands
  plate,          \* what the extraction returned last
  again,          \* the extraction has run a second time on rawText as it stands
  user,           \* VehicleEntryForm: useAuth() gives a logged-in user
  formData,       \* VehicleEntryForm: useState of the six form fields
  isSubmitting,   \* VehicleEntryForm: useState(false)
  lookups,        \* the vehicle numbers whose fetchVehicleData call is pending
  insertPending,  \* the insert of handleSubmit is pending
  formToast       \* title of the latest toast of the form, followed by its
                  \* description where two toasts share the title

vars ==
  << mounted, isProcessing, detectedNumber, previewImage, isCameraOpen, stream,
     ocrMethod, tracks, gumPending, obtained, blobQueue,
     readerPending, runs, lastToast,
     sourceText, rawText, edits, extracted, plate, again,
     user, formData, isSubmitting, lookups, insertPending, formToast >>

componentVars ==
  << mounted, isProcessing, detectedNumber, previewImage, isCameraOpen, stream,
     ocrMethod, tracks, gumPending, obtained, blobQueue,
     readerPending, runs, lastToast >>

textVars == << sourceText, rawText, edits, extracted, plate, again >>

formVars == << user, formData, isSubmitting, lookups, insertPending, formToast >>

cameraVars == << isCameraOpen, stream, tracks, gumPending, obtained, blobQueue >>

\* the component after its first render
InitComponent ==
  /\ mounted = TRUE
  /\ isProcessing = FALSE
  /\ detectedNumber = << >>
  /\ previewImage = ""
  /\ isCameraOpen = FALSE
  /\ stream = 0
  /\ ocrMethod = ""
  /\ tracks = [ s \in 1..MaxStreams |-> "none" ]
  /\ gumPending = 0
  /\ obtained = 0
  /\ blobQueue = [ s \in 0..MaxStreams |-> 0 ]
  /\ readerPending = 0
  /\ runs = << >>
  /\ lastToast = ""

\* no text under study
NoText ==
  /\ sourceText = << >>
  /\ rawText = << >>
  /\ edits = 0
  /\ extracted = FALSE
  /\ plate = None
  /\ again = FALSE

\* the six fields as useState and the reset of handleSubmit set them
DefaultFormData ==
  [ vehicleNumber  |-> << >>,
    vehicleStatus  |-> "",
    vehicleCategory |-> "",
    companyId      |-> "others",
    purposeOfVisit |-> "Job",
    ownerName      |-> << >> ]

\* the entry form after its first render, for a logged-in user
InitForm ==
  /\ user = TRUE
  /\ formData = DefaultFormData
  /\ isSubmitting = FALSE
  /\ lookups = {}
  /\ insertPending = FALSE
  /\ formToast = ""

Init == InitComponent /\ NoText /\ InitForm

----------------------------------------------------------------------------
(* React: state setters and the stream effect *)

\* a setter of a mounted component takes effect, one of an unmounted one does not
SetState(old, new) == IF mounted THEN new ELSE old

\* stream.getTracks().forEach(track => track.stop()) under "if (stream)"
StopTracks(tr, s) == IF s = 0 THEN tr ELSE [ tr EXCEPT ![s] = "stopped" ]

\* the component without the stream effect
EffectCleanup_Missing(tr, old, new) == tr

\* useEffect(() => () => { if (stream) stop }, [stream]): the cleanup of the
\* render that held `old` runs when a commit replaces it by `new`
EffectCleanup(tr, old, new) == IF old /= new THEN StopTracks(tr, old) ELSE tr

\* stopCamera without setStream(null)
StopCameraStream_Kept(cs) == stream

\* stopCamera as created by the render whose stream was cs: the new stream state
StopCameraStream(cs) == SetState(stream, IF cs /= 0 THEN 0 ELSE stream)

\* stopCamera: the tracks after the call and the commit it causes
StopCameraTracks(cs) ==
  EffectCleanup(StopTracks(tracks, cs), stream, StopCameraStream(cs))

\* stopCamera without setIsCameraOpen(false)
StopCameraOpen_Kept == isCameraOpen

\* stopCamera: setIsCameraOpen(false)
StopCameraOpen == SetState(isCameraOpen, FALSE)

----------------------------------------------------------------------------
(* The orchestrator extractVehicleNumber *)

\* imageFile instanceof File
UsePrimary(isFile) == isFile

\* the test of line 149 without its negation
NeedFallback_Inverted(vehicleNumber) == Truthy(vehicleNumber)

\* if (!vehicleNumber)
NeedFallback(vehicleNumber) == ~Truthy(vehicleNumber)

InFlight == Cardinality({ r \in DOMAIN runs : runs[r].pc /= "done" })

RECURSIVE SumUpTo(_, _)
SumUpTo(f, n) == IF n < 0 THEN 0 ELSE f[n] + SumUpTo(f, n - 1)

PendingBlobs == SumUpTo(blobQueue, MaxStreams)

\* room for one more run to be started or scheduled
RoomForRun == InFlight + PendingBlobs < MaxRuns

\* a run that never gets to its end
EndRun_Stuck(r, ended) == runs

\* the runs with run r ended as `ended`: the runs that ended before are dropped
EndRun(r, ended) ==
  LET marked == [ runs EXCEPT ![r] = [ ended EXCEPT !.pc = "ending" ] ]
      kept   == SelectSeq(marked, LAMBDA run : run.pc /= "done")
  IN  [ i \in DOMAIN kept |->
          IF kept[i].pc = "ending" THEN [ kept[i] EXCEPT !.pc = "done" ] ELSE kept[i] ]

\* the run as it stands at its first await (without Primary, vehicleNumber is
\* still null at line 149 and Fallback is called)
NewRun(src, isFile) ==
  [ src           |-> src,
    isFile        |-> isFile,
    pc            |-> IF UsePrimary(isFile) THEN "primary" ELSE "fallback",
    primaryCalls  |-> IF UsePrimary(isFile) THEN 1 ELSE 0,
    fallbackCalls |-> IF UsePrimary(isFile) THEN 0 ELSE 1,
    primResp      |-> NoResponse,
    fbResp        |-> NoFallbackResponse,
    primRet       |-> None,
    vehicleNumber |-> None,
    usedMethod    |-> "",
    outcome       |-> "none",
    cbCalls       |-> 0,
    cbArg         |-> None ]

\* setIsProcessing(true); setOcrMethod(''); then the first backend is called
StartRun(src, isFile) ==
  /\ runs' = Append(SelectSeq(runs, LAMBDA run : run.pc /= "done"), NewRun(src, isFile))
  /\ isProcessing' = SetState(isProcessing, TRUE)
  /\ ocrMethod' = SetState(ocrMethod, "")

\* the callback called outside the test of line 158
CallbackCalls_Always(vn) == 1

\* if (vehicleNumber) { ... onVehicleNumberDetected(vehicleNumber) ... }: the
\* calls of the callback the page passes in
CallbackCalls(vn) == IF Truthy(vn) THEN 1 ELSE 0

\* lines 156-176 and the finally block: the run r ends with vehicleNumber vn
Finish(r, run, vn, method) ==
  /\ ocrMethod' = SetState(ocrMethod, method)
  /\ isProcessing' = SetState(isProcessing, FALSE)
  /\ IF Truthy(vn)
       THEN /\ detectedNumber' = SetState(detectedNumber, vn[1])
            /\ lastToast' = "Vehicle Number Detected"
            /\ runs' = EndRun(r,
                 [ run EXCEPT !.vehicleNumber = vn,
                              !.usedMethod = method, !.outcome = "Success",
                              !.cbCalls = @ + CallbackCalls(vn), !.cbArg = vn ])
       ELSE /\ detectedNumber' = detectedNumber
            /\ lastToast' = "No Vehicle Number Found"
            /\ runs' = EndRun(r,
                 [ run EXCEPT !.vehicleNumber = vn,
                              !.usedMethod = method, !.outcome = "NotFound",
                              !.cbCalls = @ + CallbackCalls(vn),
                              !.cbArg = IF CallbackCalls(vn) > 0 THEN vn ELSE None ])

\* the catch and finally blocks of extractVehicleNumber
Fault(r, run) ==
  /\ isProcessing' = SetState(isProcessing, FALSE)
  /\ lastToast' = "OCR Error"
  /\ runs' = EndRun(r, [ run EXCEPT !.outcome = "Fault" ])
  /\ UNCHANGED << ocrMethod, detectedNumber >>

\* every result put down to the remote service
MethodName_AlwaysPrimary(vn, name) == "OCR.space API"

\* if (vehicleNumber) { usedMethod = name; }, usedMethod being '' before
MethodName(vn, name) == IF Truthy(vn) THEN name ELSE ""

\* the await of extractVehicleNumberWithOCRSpace returns
PrimaryReturn(responses) ==
  \E r \in DOMAIN runs, resp \in responses :
    /\ runs[r].pc = "primary"
    /\ LET ret == extractVehicleNumberWithOCRSpace(resp)
           run == [ runs[r] EXCEPT !.primResp = resp, !.primRet = ret.value ]
       IN  IF ret.thrown
             THEN Fault(r, run)
             ELSE IF NeedFallback(ret.value)
               THEN /\ runs' = [ runs EXCEPT ![r] =
                          [ run EXCEPT !.pc = "fallback", !.fallbackCalls = @ + 1 ] ]
                    /\ UNCHANGED << isProcessing, ocrMethod, detectedNumber, lastToast >>
               ELSE Finish(r, run, ret.value, MethodName(ret.value, "OCR.space API"))
    /\ UNCHANGED << formVars, textVars, mounted, previewImage, cameraVars, readerPending >>

\* a Fallback call that came back with null made once more
FallbackAgain_OnNull(vn) == ~Truthy(vn)

\* lines 149-156 run top to bottom: after the await of line 150 nothing leads
\* back to the call, whatever it returned
FallbackAgain(vn) == FALSE

\* the await of extractVehicleNumberWithTesseract returns
FallbackReturn(responses) ==
  \E r \in DOMAIN runs, resp \in responses :
    /\ runs[r].pc = "fallback"
    /\ LET ret == extractVehicleNumberWithTesseract(resp)
           run == [ runs[r] EXCEPT !.fbResp = resp ]
       IN  IF ret.thrown
             THEN Fault(r, run)
             ELSE IF FallbackAgain(ret.value)
               THEN /\ runs' = [ runs EXCEPT ![r] =
                          [ run EXCEPT !.fallbackCalls = @ + 1 ] ]
                    /\ UNCHANGED << isProcessing, ocrMethod, detectedNumber, lastToast >>
               ELSE Finish(r, run, ret.value,
                           MethodName(ret.value, "Tesseract.js (fallback)"))
    /\ UNCHANGED << formVars, textVars, mounted, previewImage, cameraVars, readerPending >>

----------------------------------------------------------------------------
(* The handlers *)

\* event.target.files?.[0]: no file, or a file with its content type
NoFile == << "none" >>

\* "image/png"
Type_Png == << "i","m","a","g","e","/","p","n","g" >>

\* "application/pdf"
Type_Pdf == << "a","p","p","l","i","c","a","t","i","o","n","/","p","d","f" >>

\* "imagery": starts with "image" but not with "image/"
Type_Imagery == << "i","m","a","g","e","r","y" >>

\* a file whose type the browser could not determine
Type_Unknown == << >>

FileTypes == { Type_Png, Type_Pdf, Type_Imagery, Type_Unknown }

\* String.prototype.startsWith
startsWith(s, prefix) ==
  Len(s) >= Len(prefix) /\ SubSeq(s, 1, Len(prefix)) = prefix

\* the validation accepting every file
IsImageType_Any(type) == TRUE

\* file.type.startsWith('image/')
IsImageType(type) == startsWith(type, << "i","m","a","g","e","/" >>)

\* handleFileUpload on the selection `file`: the file input is disabled while
\* processing or while the camera is open
handleFileUploadOf(file) ==
  /\ mounted /\ ~isProcessing /\ ~isCameraOpen
  /\ RoomForRun
  /\ IF file = NoFile
       THEN UNCHANGED << isProcessing, ocrMethod, runs, readerPending, lastToast >>
       ELSE IF ~IsImageType(file)
         THEN /\ lastToast' = "Invalid File Type"
              /\ UNCHANGED << isProcessing, ocrMethod, runs, readerPending >>
         ELSE /\ readerPending < MaxRuns
              /\ readerPending' = readerPending + 1
              /\ StartRun("file", TRUE)
              /\ UNCHANGED lastToast
  /\ UNCHANGED << formVars, textVars, mounted, detectedNumber, previewImage, cameraVars >>

handleFileUpload == \E file \in FileTypes \cup {NoFile} : handleFileUploadOf(file)

\* reader.onload of handleFileUpload
readerOnLoad ==
  /\ readerPending > 0
  /\ readerPending' = readerPending - 1
  /\ previewImage' = SetState(previewImage, "data")
  /\ UNCHANGED << formVars, textVars, mounted, isProcessing, detectedNumber, ocrMethod, cameraVars,
                  runs, lastToast >>

\* startCamera up to its await: the Open Camera button is rendered while the
\* camera is closed and disabled while processing
startCamera ==
  /\ mounted /\ ~isCameraOpen /\ ~isProcessing
  /\ obtained + gumPending < MaxStreams
  /\ tracks' = StopTracks(tracks, stream)
  /\ gumPending' = gumPending + 1
  /\ UNCHANGED << formVars, textVars, mounted, isProcessing, detectedNumber, previewImage, isCameraOpen,
                  stream, ocrMethod, obtained, blobQueue, readerPending,
                  runs, lastToast >>

\* getUserMedia resolves with a new live MediaStream; startCamera continues
getUserMediaResolve ==
  /\ gumPending > 0
  /\ LET mediaStream == obtained + 1
         live == [ tracks EXCEPT ![mediaStream] = "live" ]
     IN  /\ obtained' = mediaStream
         /\ stream' = SetState(stream, mediaStream)
         /\ isCameraOpen' = SetState(isCameraOpen, TRUE)
         /\ tracks' = IF mounted THEN EffectCleanup(live, stream, mediaStream) ELSE live
  /\ gumPending' = gumPending - 1
  /\ lastToast' = "Camera Started"
  /\ UNCHANGED << formVars, textVars, mounted, isProcessing, detectedNumber, previewImage, ocrMethod,
                  blobQueue, readerPending, runs >>

\* getUserMedia rejects; the catch block of startCamera
getUserMediaReject ==
  /\ gumPending > 0
  /\ gumPending' = gumPending - 1
  /\ lastToast' = "Camera Error"
  /\ UNCHANGED << formVars, textVars, mounted, isProcessing, detectedNumber, previewImage, isCameraOpen,
                  stream, ocrMethod, tracks, obtained, blobQueue,
                  readerPending, runs >>

\* the Close Camera button: stopCamera of the current render
stopCamera ==
  /\ mounted /\ isCameraOpen /\ ~isProcessing
  /\ tracks' = StopCameraTracks(stream)
  /\ stream' = StopCameraStream(stream)
  /\ isCameraOpen' = StopCameraOpen
  /\ UNCHANGED << formVars, textVars, mounted, isProcessing, detectedNumber, previewImage, ocrMethod,
                  gumPending, obtained, blobQueue, readerPending, runs,
                  lastToast >>

\* video.videoWidth and video.videoHeight: 0 while the stream has no frame yet
VideoWidths == { 0, 1280 }

VideoHeights == { 0, 720 }

DefaultWidth == 640

DefaultHeight == 480

\* video.videoWidth || 640, video.videoHeight || 480
CanvasSize(videoSize, default) == IF videoSize /= 0 THEN videoSize ELSE default

\* capturePhoto up to canvas.toBlob: the Capture button is rendered while the
\* camera is open (and with it the video and canvas elements) and disabled
\* while processing.  ctx: getContext('2d') gave a context; drawn: drawImage
\* and toBlob did not throw.  A canvas without area makes toBlob throw nothing
\* and encode nothing; one with area gets its callback scheduled.
capturePhotoOf(videoWidth, videoHeight, ctx, drawn) ==
  /\ mounted /\ isCameraOpen /\ ~isProcessing
  /\ RoomForRun
  /\ LET width  == CanvasSize(videoWidth, DefaultWidth)
         height == CanvasSize(videoHeight, DefaultHeight)
     IN  IF ~ctx
           THEN /\ lastToast' = "Error: Could not get canvas context."
                /\ UNCHANGED blobQueue
           ELSE IF ~drawn
             THEN /\ lastToast' = "Capture Error"
                  /\ UNCHANGED blobQueue
             ELSE /\ width > 0 /\ height > 0
                  /\ blobQueue' = [ blobQueue EXCEPT ![stream] = @ + 1 ]
                  /\ UNCHANGED lastToast
  /\ UNCHANGED << formVars, textVars, mounted, isProcessing, detectedNumber, previewImage, isCameraOpen,
                  stream, ocrMethod, tracks, gumPending, obtained, readerPending, runs >>

capturePhoto ==
  \E videoWidth \in VideoWidths, videoHeight \in VideoHeights,
     ctx \in BOOLEAN, drawn \in BOOLEAN :
    capturePhotoOf(videoWidth, videoHeight, ctx, drawn)

\* the blob handed on as it is, not wrapped in a File
CapturedIsBlob == FALSE

\* new File([blob], 'captured-image.jpg', ...): what capturePhoto hands to
\* extractVehicleNumber is a File
CapturedIsFile == TRUE

\* the callback going on with a null blob
BlobMissing_Ignored(blob) == FALSE

\* if (!blob)
BlobMissing(blob) == ~blob

\* the callback of canvas.toBlob, with the stopCamera its capturePhoto closed
\* over; blob: the encoder produced data
toBlobCallbackOf(cs, blob) ==
  /\ blobQueue[cs] > 0
  /\ blobQueue' = [ blobQueue EXCEPT ![cs] = @ - 1 ]
  /\ IF BlobMissing(blob)
       THEN /\ lastToast' = "Error: Could not capture image."
            /\ UNCHANGED << isProcessing, previewImage, isCameraOpen, stream,
                            ocrMethod, tracks, runs >>
       ELSE /\ previewImage' = SetState(previewImage, "blob")
            /\ tracks' = StopCameraTracks(cs)
            /\ stream' = StopCameraStream(cs)
            /\ isCameraOpen' = StopCameraOpen
            /\ lastToast' = "Photo Captured"
            /\ StartRun("camera", CapturedIsFile)
  /\ UNCHANGED << formVars, textVars, mounted, detectedNumber, gumPending, obtained, readerPending >>

toBlobCallback ==
  \E cs \in DOMAIN blobQueue, blob \in BOOLEAN : toBlobCallbackOf(cs, blob)

\* clearResults: the button is rendered while there is a result or a preview
\* and disabled while processing
clearResults ==
  /\ mounted /\ ~isProcessing
  /\ detectedNumber /= << >> \/ previewImage /= ""
  /\ detectedNumber' = << >>
  /\ previewImage' = ""
  /\ ocrMethod' = ""
  /\ UNCHANGED << formVars, textVars, mounted, isProcessing, cameraVars, readerPending, runs, lastToast >>

\* the component unmounts: the cleanup of the stream effect runs
unmount ==
  /\ mounted
  /\ mounted' = FALSE
  /\ tracks' = StopTracks(tracks, stream)
  /\ UNCHANGED << formVars, textVars, isProcessing, detectedNumber, previewImage, isCameraOpen, stream,
                  ocrMethod, gumPending, obtained, blobQueue, readerPending,
                  runs, lastToast >>

----------------------------------------------------------------------------
(* The extraction on its own: a recognised text, the same text with other  *)
(* whitespace, and the extraction both adapters run on it                  *)

\* the engine puts a space, a tab or a line break at some place of the text
insertWhitespace ==
  /\ extracted /\ edits < MaxEdits
  /\ \E i \in 0..Len(rawText), w \in Whitespace :
       rawText' = SubSeq(rawText, 1, i) \o << w >> \o SubSeq(rawText, i + 1, Len(rawText))
  /\ edits' = edits + 1
  /\ extracted' = FALSE
  /\ again' = FALSE
  /\ UNCHANGED << sourceText, plate, componentVars, formVars >>

\* the engine leaves out one whitespace character of the text
removeWhitespace ==
  /\ extracted /\ edits < MaxEdits
  /\ \E i \in DOMAIN rawText :
       /\ rawText[i] \in Whitespace
       /\ rawText' = SubSeq(rawText, 1, i - 1) \o SubSeq(rawText, i + 1, Len(rawText))
  /\ edits' = edits + 1
  /\ extracted' = FALSE
  /\ again' = FALSE
  /\ UNCHANGED << sourceText, plate, componentVars, formVars >>

\* a call that goes on from where the match of the call before ended
ExtractionCall_KeepsPosition(text, before) ==
  IF before = None
    THEN ExtractPlate(text)
    ELSE ExtractPlate(SubSeq(text, Len(before[1]) + 1, Len(text)))

\* what a call of lines 71-85 or 109-123 returns on `text` when the call
\* before it returned `before`: the patterns are literals without the g flag,
\* evaluated by each call, and match() searches from the start of the text
ExtractionCall(text, before) == ExtractPlate(text)

\* lines 71-85 and 109-123 run on the text
extractText ==
  /\ ~extracted
  /\ plate' = ExtractionCall(rawText, plate)
  /\ extracted' = TRUE
  /\ again' = FALSE
  /\ UNCHANGED << sourceText, rawText, edits, componentVars, formVars >>

\* the same lines run once more on the same text
extractAgain ==
  /\ extracted /\ ~again
  /\ again' = TRUE
  /\ plate' = ExtractionCall(rawText, plate)
  /\ UNCHANGED << sourceText, rawText, edits, extracted, componentVars, formVars >>

----------------------------------------------------------------------------
(* Specifications *)

PrimaryResponses == PrimaryFailures \cup PrimaryTexts(RawTexts)

FallbackResponses == FallbackFailures \cup FallbackTexts(RawTexts)

\* the recognition pipeline on selected files
NextPipeline ==
  \/ handleFileUpload
  \/ readerOnLoad
  \/ PrimaryReturn(PrimaryResponses)
  \/ FallbackReturn(FallbackResponses)
  \/ clearResults
  \/ unmount

SpecPipeline == Init /\ [][NextPipeline]_vars

\* the same with every backend call coming back: fetch and
\* Tesseract.recognize settle their promises
SpecPipelineFair ==
  /\ SpecPipeline
  /\ WF_vars(PrimaryReturn(PrimaryResponses))
  /\ WF_vars(FallbackReturn(FallbackResponses))

FewPrimaryResponses ==
  { PrimaryResponse("reject", FALSE, "none", 0, "none", << >>) }
    \cup PrimaryTexts({T_PlateNl, T_PlateSpaced, T_X1})

FewFallbackResponses ==
  { FallbackResponse("reject", << >>) } \cup FallbackTexts({T_PlateUpper, T_PlateLower, T_X1})

\* the whole component, with a few answers per backend
Next ==
  \/ handleFileUpload
  \/ readerOnLoad
  \/ PrimaryReturn(FewPrimaryResponses)
  \/ FallbackReturn(FewFallbackResponses)
  \/ startCamera
  \/ getUserMediaResolve
  \/ getUserMediaReject
  \/ stopCamera
  \/ capturePhoto
  \/ toBlobCallback
  \/ clearResults
  \/ unmount

Spec == Init /\ [][Next]_vars

\* the camera session and the runs its captures start
NextCamera ==
  \/ PrimaryReturn(FewPrimaryResponses)
  \/ FallbackReturn(FewFallbackResponses)
  \/ startCamera
  \/ getUserMediaResolve
  \/ getUserMediaReject
  \/ stopCamera
  \/ capturePhoto
  \/ toBlobCallback
  \/ clearResults
  \/ unmount

SpecCamera == Init /\ [][NextCamera]_vars

\* the texts whose variants in whitespace are gone through
ExtractionTexts ==
  { T_Empty, T_X1, T_PlateSpaced, T_PlateLower, T_ShortPlate, T_Thirteen,
    T_NoPlateVisible }

\* a backend has recognised one of the texts
InitExtraction ==
  /\ InitComponent
  /\ sourceText \in ExtractionTexts
  /\ rawText = sourceText
  /\ edits = 0
  /\ extracted = FALSE
  /\ plate = None
  /\ again = FALSE
  /\ InitForm

NextExtraction ==
  \/ extractText
  \/ extractAgain
  \/ insertWhitespace
  \/ removeWhitespace

\* the extraction on every text and on its variants in whitespace
SpecExtraction == InitExtraction /\ [][NextExtraction]_vars

----------------------------------------------------------------------------
(* The vehicle entry form (src/src/components/VehicleEntryForm.tsx): the   *)
(* lookup every edit of the vehicle number issues, and the submit.  The    *)
(* handlers are taken as they are written: each decides by its own tests   *)
(* on formData and user what it does.                                      *)

Min(a, b) == IF a <= b THEN a ELSE b

\* value.replace(/[^a-zA-Z0-9]/g, '').toUpperCase().slice(0, 13)
Sanitize(value) ==
  LET kept == SelectSeq(value, LAMBDA c : c \in AlnumI)
      up   == toUpperCase(kept)
  IN  SubSeq(up, 1, Min(13, Len(up)))

\* value.replace(/[^a-zA-Z\s]/g, '')
SanitizeOwner(value) == SelectSeq(value, LAMBDA c : c \in LetterI \cup Whitespace)

\* what is typed or pasted into the vehicle number input
RawNumbers ==
  { << >>,
    << "k","a" >>,
    << "k","a","-","0","1" >>,
    << "m","h"," ","1","2" >> }

\* what is typed into the owner name input
RawOwners == { << "A","s","h","a" >>, << "R","2"," ","D" >> }

\* the values the selects of the form offer
FieldValues ==
  [ vehicleStatus   |-> { "IN", "OUT" },
    vehicleCategory |-> { "Car" },
    companyId       |-> { "others", "c1" },
    purposeOfVisit  |-> { "Job", "Interview" } ]

\* a row of vehicle_entries as the lookup reads it; a null column is ''
VehicleData(category, company, purpose, owner, status) ==
  [ vehicle_category |-> category,
    company_id       |-> company,
    purpose_of_visit |-> purpose,
    owner_name       |-> owner,
    vehicle_status   |-> status ]

\* what a lookup resolves to: null (no row, or the query failed), or the
\* latest row of the number
LookupResults ==
  { None,
    Some(VehicleData("Car", "c1", "Interview", << "A","s","h","a" >>, "IN")),
    Some(VehicleData("", "", "", << >>, "OUT")),
    Some(VehicleData("Car", "", "Job", << >>, "PENDING")) }

\* a || b on strings
OrElse(a, b) == IF a /= "" THEN a ELSE b

\* vehicleData.vehicle_status === 'IN' ? 'OUT' : 'IN'
ToggledStatus(status) == IF status = "IN" THEN "OUT" ELSE "IN"

\* the second setFormData of handleVehicleNumberChange
AutoFill(prev, vehicleData) ==
  [ prev EXCEPT !.vehicleCategory = OrElse(vehicleData.vehicle_category, ""),
                !.companyId       = OrElse(vehicleData.company_id, "others"),
                !.purposeOfVisit  = OrElse(vehicleData.purpose_of_visit, "Job"),
                !.ownerName       = vehicleData.owner_name,
                !.vehicleStatus   = ToggledStatus(vehicleData.vehicle_status) ]

\* fetchVehicleData goes on to its query:
\* not (!vehicleNumber.trim() || !user)
Queries(vehicleNumber) ==
  /\ \E i \in DOMAIN vehicleNumber : vehicleNumber[i] \notin Whitespace
  /\ user

\* an edit of the vehicle number, up to the await of the lookup.  A number
\* whose lookup is already pending is kept once: both calls read the same
\* row.
handleVehicleNumberChangeOf(value) ==
  LET sanitizedValue == Sanitize(value)
  IN  /\ formData' = [ formData EXCEPT !.vehicleNumber = sanitizedValue ]
      /\ lookups' = IF Len(sanitizedValue) >= 3 /\ Queries(sanitizedValue)
                      THEN lookups \cup { sanitizedValue }
                      ELSE lookups
      /\ UNCHANGED << user, isSubmitting, insertPending, formToast,
                      componentVars, textVars >>

handleVehicleNumberChange == \E value \in RawNumbers : handleVehicleNumberChangeOf(value)

\* the lookup of vehicleNumber resolves to vehicleData and
\* handleVehicleNumberChange goes on after its await
fetchVehicleDataReturnOf(vehicleNumber, vehicleData) ==
  /\ vehicleNumber \in lookups
  /\ lookups' = lookups \ { vehicleNumber }
  /\ IF vehicleData /= None
       THEN /\ formData' = AutoFill(formData, vehicleData[1])
            /\ formToast' = "Vehicle Found"
       ELSE UNCHANGED << formData, formToast >>
  /\ UNCHANGED << user, isSubmitting, insertPending, componentVars, textVars >>

fetchVehicleDataReturn ==
  \E vehicleNumber \in lookups, vehicleData \in LookupResults :
    fetchVehicleDataReturnOf(vehicleNumber, vehicleData)

\* a select of the form changes its field
handleInputChange ==
  \E field \in DOMAIN FieldValues : \E value \in FieldValues[field] :
    /\ formData' = [ formData EXCEPT ![field] = value ]
    /\ UNCHANGED << user, isSubmitting, lookups, insertPending, formToast,
                    componentVars, textVars >>

handleOwnerNameChange ==
  \E value \in RawOwners :
    /\ formData' = [ formData EXCEPT !.ownerName = SanitizeOwner(value) ]
    /\ UNCHANGED << user, isSubmitting, lookups, insertPending, formToast,
                    componentVars, textVars >>

\* only the vehicle number is looked at
MandatoryMissing_NumberOnly(fd) == fd.vehicleNumber = << >>

\* !formData.vehicleNumber || !formData.vehicleStatus || !formData.vehicleCategory
MandatoryMissing(fd) ==
  \/ fd.vehicleNumber = << >>
  \/ fd.vehicleStatus = ""
  \/ fd.vehicleCategory = ""

\* the submit, up to the await of the insert; the submit button is disabled
\* while isSubmitting
handleSubmit ==
  /\ ~isSubmitting
  /\ IF MandatoryMissing(formData)
       THEN /\ formToast' = "Error: Please fill in all mandatory fields."
            /\ UNCHANGED << isSubmitting, insertPending >>
       ELSE IF ~user
         THEN /\ formToast' = "Error: You must be logged in to submit entries."
              /\ UNCHANGED << isSubmitting, insertPending >>
         ELSE /\ isSubmitting' = TRUE
              /\ insertPending' = TRUE
              /\ UNCHANGED formToast
  /\ UNCHANGED << user, formData, lookups, componentVars, textVars >>

\* the insert comes back, with an error or without, and handleSubmit goes
\* on to its end
insertReturnOf(ok) ==
  /\ insertPending
  /\ insertPending' = FALSE
  /\ IF ok
       THEN /\ formToast' = "Success!"
            /\ formData' = DefaultFormData
       ELSE /\ formToast' = "Error: Failed to submit entry."
            /\ UNCHANGED formData
  /\ isSubmitting' = FALSE
  /\ UNCHANGED << user, lookups, componentVars, textVars >>

insertReturn == \E ok \in BOOLEAN : insertReturnOf(ok)

\* useAuth: the user logs out, or in again
authChange ==
  /\ user' = ~user
  /\ UNCHANGED << formData, isSubmitting, lookups, insertPending, formToast,
                  componentVars, textVars >>

NextEntryForm ==
  \/ handleVehicleNumberChange
  \/ fetchVehicleDataReturn
  \/ handleInputChange
  \/ handleOwnerNameChange
  \/ handleSubmit
  \/ insertReturn
  \/ authChange

SpecEntryForm == Init /\ [][NextEntryForm]_vars

----------------------------------------------------------------------------
(* Vocabulary of the properties *)

Runs == { runs[r] : r \in DOMAIN runs }

Ended(run) == run.pc = "done"

\* the Primary call of the run has come back
PrimaryReturned(run) == run.primResp /= NoResponse

\* the remote service answered with a parsed text
PrimaryGaveText(run) ==
  /\ run.primResp.net = "ok" /\ run.primResp.ok /\ run.primResp.json = "valid"
  /\ run.primResp.exit = 1 /\ run.primResp.results = "text"

\* the Primary call failed: transport error, status, body, exit code, results
PrimaryFailed(run) == PrimaryReturned(run) /\ ~PrimaryGaveText(run)

FallbackFailed(run) == run.fbResp.kind \in {"reject", "malformed"}

NotBlank(s) == \E i \in DOMAIN s : s[i] \notin Whitespace

\* the strict plate shape as the specification words it: two letters, 1-2
\* digits, 1-2 letters, 3-5 digits, or two digits, two letters, four digits,
\* one letter
SpecStrictPattern ==
  << << Piece(LetterI, 2, 2), Piece(Digit, 1, 2),
        Piece(LetterI, 1, 2), Piece(Digit, 3, 5) >>,
     << Piece(Digit, 2, 2), Piece(LetterI, 2, 2),
        Piece(Digit, 4, 4), Piece(LetterI, 1, 1) >> >>

SpecStrictMatch(text) == Match(CleanText(text), SpecStrictPattern)

SpecStrictPlate == [ text \in RawTexts |-> SpecStrictMatch(text) ]

----------------------------------------------------------------------------
(* C1 *)

\* C1: in a run on a file-backed image whose Primary text is non-empty and,
\* stripped of whitespace, contains a match of the strict plate shape of the
\* specification, Fallback is never invoked and the run ends in Success with
\* that plate, sourced from Primary.
C1_StrictPrimaryTextWins ==
  \A run \in Runs :
    ( /\ run.isFile
      /\ PrimaryGaveText(run)
      /\ run.primResp.text /= << >>
      /\ SpecStrictPlate[run.primResp.text] /= None )
    => /\ run.fallbackCalls = 0
       /\ Ended(run) =>
            /\ run.outcome = "Success"
            /\ run.usedMethod = "OCR.space API"
            /\ run.vehicleNumber =
                 Some(toUpperCase(SpecStrictPlate[run.primResp.text][1]))

----------------------------------------------------------------------------
(* C2 *)

\* C2: in a run on a file-backed image whose Primary call returned null, for
\* whatever reason, Fallback has been invoked exactly once.
C2_NullPrimaryFallbackOnce ==
  \A run \in Runs :
    (run.isFile /\ PrimaryReturned(run) /\ run.primRet = None)
      => run.fallbackCalls = 1

\* a run ended whose Primary call failed in transport and whose Fallback ran
C2_Witness ==
  \E run \in Runs :
    /\ Ended(run) /\ run.isFile
    /\ run.primResp.net = "reject" /\ run.primRet = None
    /\ run.fallbackCalls = 1 /\ run.fbResp /= NoFallbackResponse

----------------------------------------------------------------------------
(* C3 *)

\* C3 as written: a run on a camera capture never invokes Primary.
C3_CameraSkipsPrimary ==
  \A run \in Runs : run.src = "camera" => run.primaryCalls = 0

\* C3 amended: a camera capture is wrapped in a File, so its run invokes
\* Primary exactly once, first, and Fallback exactly once if Primary has
\* returned null and not at all otherwise.
C3_CameraRunsPrimaryFirst ==
  \A run \in Runs :
    run.src = "camera"
      => /\ run.isFile
         /\ run.primaryCalls = 1
         /\ run.fallbackCalls =
              IF PrimaryReturned(run) /\ run.primRet = None THEN 1 ELSE 0

\* a camera run that ended in Success on the Primary text alone
C3_Witness ==
  \E run \in Runs :
    /\ run.src = "camera" /\ Ended(run) /\ run.outcome = "Success"
    /\ run.primaryCalls = 1 /\ run.fallbackCalls = 0
    /\ run.usedMethod = "OCR.space API"

----------------------------------------------------------------------------
(* C4 *)

\* C4 as written: when Primary answers with a text in which the extraction
\* finds no plate, Fallback is not invoked and the run ends NotFound.
C4_NoFallbackAfterPrimaryText ==
  \A run \in Runs :
    (run.isFile /\ PrimaryGaveText(run) /\ ExtractedPlate[run.primResp.text] = None)
      => /\ run.fallbackCalls = 0
         /\ Ended(run) => run.outcome = "NotFound"

\* C4 amended: Fallback is invoked only when the input is not file-backed or
\* the Primary adapter returned null, and a Primary text in which the
\* extraction finds no plate counts as null: Fallback is then invoked once,
\* and the run ends NotFound only if Fallback yields no plate either.
C4_FallbackWhenPrimaryYieldsNoPlate ==
  \A run \in Runs :
    /\ run.fallbackCalls > 0
         => ~run.isFile \/ (PrimaryReturned(run) /\ run.primRet = None)
    /\ (run.isFile /\ PrimaryGaveText(run) /\ ExtractedPlate[run.primResp.text] = None)
         => /\ run.fallbackCalls = 1
            /\ Ended(run) =>
                 /\ run.fbResp /= NoFallbackResponse
                 /\ run.outcome =
                      IF run.fbResp.kind = "text" /\ ExtractedPlate[run.fbResp.text] /= None
                        THEN "Success" ELSE "NotFound"

\* Primary read "X1", Fallback was invoked and found the plate
C4_Witness ==
  \E run \in Runs :
    /\ Ended(run) /\ run.isFile
    /\ PrimaryGaveText(run) /\ run.primResp.text = T_X1
    /\ run.fallbackCalls = 1
    /\ run.outcome = "Success" /\ run.usedMethod = "Tesseract.js (fallback)"

----------------------------------------------------------------------------
(* C5 *)

\* C5: no failure inside an adapter reaches the orchestrator as a thrown
\* error: no run ends in the hard fault, the "OCR Error" toast is never
\* shown, and a run in which both backends failed ends NotFound.
C5_BackendFailuresEndNotFound ==
  /\ lastToast /= "OCR Error"
  /\ \A run \in Runs :
       /\ run.outcome /= "Fault"
       /\ (Ended(run) /\ PrimaryFailed(run) /\ FallbackFailed(run))
            => /\ run.outcome = "NotFound"
               /\ run.vehicleNumber = None

\* both backends failed and the run ended NotFound
C5_Witness ==
  \E run \in Runs :
    /\ Ended(run) /\ run.outcome = "NotFound"
    /\ run.primResp.net = "ok" /\ ~run.primResp.ok
    /\ run.fbResp.kind = "reject"

----------------------------------------------------------------------------
(* C6 *)

\* C6: the plate of a Success, as stored in detectedNumber and as passed to
\* the callback, is neither empty nor made of whitespace only.
C6_SuccessTextNotBlank ==
  /\ detectedNumber /= << >> => NotBlank(detectedNumber)
  /\ \A run \in Runs :
       /\ run.outcome = "Success"
            => run.vehicleNumber /= None /\ NotBlank(run.vehicleNumber[1])
       /\ run.cbCalls > 0
            => run.cbArg /= None /\ NotBlank(run.cbArg[1])

\* a Success on a text that held whitespace, stored and passed on
C6_Witness ==
  \E run \in Runs :
    /\ run.outcome = "Success"
    /\ run.primResp.text = T_PlateSpaced
    /\ run.cbCalls = 1
    /\ detectedNumber = run.vehicleNumber[1]

----------------------------------------------------------------------------
(* C7 *)

\* C7: the callback is invoked exactly once, with the plate of the run, by a
\* run that ended in Success, and not at all by a run that is in flight or
\* that ended NotFound.
C7_CallbackOncePerSuccess ==
  \A run \in Runs :
    /\ run.outcome = "Success"
         => run.cbCalls = 1 /\ run.cbArg = run.vehicleNumber /\ Truthy(run.cbArg)
    /\ run.outcome /= "Success" => run.cbCalls = 0 /\ run.cbArg = None

\* a camera run ended in Success and called back once, with its plate, while
\* another run is still in flight
C7_Witness ==
  /\ \E run \in Runs :
       /\ run.src = "camera" /\ run.outcome = "Success"
       /\ run.cbCalls = 1 /\ run.cbArg = Some(detectedNumber)
  /\ \E run \in Runs : ~Ended(run)

----------------------------------------------------------------------------
(* C8 *)

----------------------------------------------------------------------------
(* C9 *)

\* C9: once the camera is closed or the component is unmounted, no stream
\* the component obtained has live tracks.
C9_NoLiveStreamOnceClosed ==
  (~mounted \/ ~isCameraOpen) => \A s \in 1..MaxStreams : tracks[s] /= "live"

----------------------------------------------------------------------------
(* C10 *)

\* the stream and the flag agree: open with a live stream, or closed with none
SessionConsistent ==
  IF isCameraOpen
    THEN stream /= 0 /\ tracks[stream] = "live"
    ELSE stream = 0 /\ \A s \in 1..MaxStreams : tracks[s] /= "live"

\* a step that calls stopCamera: the Close button, or a capture that got a blob
StopCameraStep ==
  \/ stopCamera
  \/ toBlobCallback /\ lastToast' = "Photo Captured" /\ runs' /= runs

\* C10: while the component is mounted, an open camera holds a stream whose
\* tracks are live, and every call of stopCamera leaves the camera closed,
\* the stream state null and no track live.
C10_OpenHoldsLiveStream ==
  /\ [](mounted => SessionConsistent)
  /\ [][ (mounted /\ StopCameraStep)
           => /\ ~isCameraOpen'
              /\ stream' = 0
              /\ \A s \in 1..MaxStreams : tracks'[s] /= "live" ]_vars

\* a capture closed the camera after a second stream had replaced the first:
\* both streams are stopped, the stream state is null and the camera is closed
C10_Witness ==
  /\ mounted /\ ~isCameraOpen /\ stream = 0
  /\ obtained = 2 /\ gumPending = 0
  /\ tracks[1] = "stopped" /\ tracks[2] = "stopped"
  /\ \E run \in Runs : run.src = "camera"

----------------------------------------------------------------------------
(* C11 *)

\* C11: no two recognition attempts run at the same time: within a run
\* Fallback is called only after the Primary call has come back, and at most
\* one run is in flight.
C11_NoConcurrentRuns ==
  /\ InFlight <= 1
  /\ \A run \in Runs :
       (run.primaryCalls > 0 /\ run.fallbackCalls > 0) => PrimaryReturned(run)

----------------------------------------------------------------------------
(* C12 *)

\* content types that are not image types
NotImageTypes == { Type_Pdf, Type_Imagery, Type_Unknown }

\* C12: selecting a file whose type is not an image type shows the
\* "Invalid File Type" toast, starts no run and schedules no preview, and
\* leaves the preview, the detected number, the source backend and the
\* processing flag as they were.
C12_NonImageRejected ==
  [][ \A file \in NotImageTypes :
        handleFileUploadOf(file)
          => /\ lastToast' = "Invalid File Type"
             /\ UNCHANGED << previewImage, detectedNumber, ocrMethod, isProcessing,
                             runs, readerPending >> ]_vars

\* a non-image file was rejected after an earlier run had ended in Success:
\* its result and preview are still shown and nothing is in flight
C12_Witness ==
  /\ lastToast = "Invalid File Type"
  /\ detectedNumber /= << >> /\ previewImage = "data"
  /\ ocrMethod = "OCR.space API"
  /\ ~isProcessing /\ InFlight = 0 /\ readerPending = 0

----------------------------------------------------------------------------
(* C13 *)

\* C13: a capture on a video surface of zero width or height shows an error
\* toast and schedules no encoding, so that no run starts from it.
C13_ZeroSizeCaptureFails ==
  [][ \A videoWidth \in VideoWidths, videoHeight \in VideoHeights,
         ctx \in BOOLEAN, drawn \in BOOLEAN :
        ((videoWidth = 0 \/ videoHeight = 0)
           /\ capturePhotoOf(videoWidth, videoHeight, ctx, drawn))
          => /\ lastToast' \in { "Capture Error", "Error: Could not get canvas context." }
             /\ blobQueue' = blobQueue ]_vars

----------------------------------------------------------------------------
(* C14 *)

\* C14: an encoder callback that comes with a null blob shows the error
\* toast, starts no run, and leaves the preview, the detected number and
\* the processing flag as they were.
C14_NullBlobFails ==
  [][ \A cs \in DOMAIN blobQueue :
        toBlobCallbackOf(cs, FALSE)
          => /\ lastToast' = "Error: Could not capture image."
             /\ UNCHANGED << previewImage, detectedNumber, isProcessing, runs >> ]_vars

\* the encoder gave no data: the error is shown, the camera is still open,
\* and no run has started
C14_Witness ==
  /\ lastToast = "Error: Could not capture image."
  /\ mounted /\ isCameraOpen /\ PendingBlobs = 0
  /\ runs = << >> /\ ~isProcessing /\ previewImage = ""

----------------------------------------------------------------------------
(* C15 *)

\* C15: within one run each backend is invoked at most once, also after it
\* has returned null.
C15_NoRetry ==
  \A run \in Runs : run.primaryCalls <= 1 /\ run.fallbackCalls <= 1

\* a run ended in which both backends returned null and each was called once
C15_Witness ==
  \E run \in Runs :
    /\ Ended(run) /\ run.outcome = "NotFound"
    /\ PrimaryReturned(run) /\ run.primRet = None
    /\ run.fbResp /= NoFallbackResponse
    /\ run.primaryCalls = 1 /\ run.fallbackCalls = 1

----------------------------------------------------------------------------
(* C16 *)

\* "MH12AB1234"
P_MH12AB1234 == << "M","H","1","2","A","B","1","2","3","4" >>

\* the backend whose answer holds the plate of the run, from the answers alone
YieldingBackend(run) ==
  IF PrimaryGaveText(run) /\ ExtractedPlate[run.primResp.text] /= None
    THEN "OCR.space API"
    ELSE IF run.fbResp.kind = "text" /\ ExtractedPlate[run.fbResp.text] /= None
      THEN "Tesseract.js (fallback)"
      ELSE ""

\* C16: a run that ended in Success reports the backend whose answer yielded
\* the plate: Primary when Primary returned it, Fallback when Primary was
\* skipped or returned null and Fallback returned it.  A File whose Primary
\* text is "MH12AB1234\n" gives Success("MH12AB1234", Primary); a camera
\* capture whose Fallback text is "KA01EF9012" gives
\* Success("KA01EF9012", Fallback).
C16_SourceIsYieldingBackend ==
  \A run \in Runs :
    /\ (Ended(run) /\ run.outcome = "Success")
         => /\ run.usedMethod = YieldingBackend(run)
            /\ run.usedMethod = "OCR.space API"
                 => /\ run.vehicleNumber = run.primRet
                    /\ run.fallbackCalls = 0
            /\ run.usedMethod /= "OCR.space API"
                 => /\ run.usedMethod = "Tesseract.js (fallback)"
                    /\ run.primaryCalls = 0 \/ run.primRet = None
                    /\ run.vehicleNumber = ExtractedPlate[run.fbResp.text]
    /\ (Ended(run) /\ run.isFile /\ PrimaryGaveText(run)
          /\ run.primResp.text = T_PlateNl)
         => /\ run.outcome = "Success"
            /\ run.vehicleNumber = Some(P_MH12AB1234)
            /\ run.usedMethod = "OCR.space API"
    /\ (Ended(run) /\ run.src = "camera" /\ run.fbResp = FallbackResponse("text", T_PlateUpper))
         => /\ run.outcome = "Success"
            /\ run.vehicleNumber = Some(T_PlateUpper)
            /\ run.usedMethod = "Tesseract.js (fallback)"

\* a camera capture ended in Success on the Fallback text "KA01EF9012" after
\* Primary had failed, and the component shows that plate and its source
C16_Witness ==
  /\ \E run \in Runs :
       /\ Ended(run) /\ run.src = "camera" /\ run.outcome = "Success"
       /\ PrimaryFailed(run)
       /\ run.fbResp = FallbackResponse("text", T_PlateUpper)
       /\ run.usedMethod = "Tesseract.js (fallback)"
  /\ detectedNumber = T_PlateUpper
  /\ ocrMethod = "Tesseract.js (fallback)"

----------------------------------------------------------------------------
(* C17 *)

\* C17: when the text, stripped of whitespace, holds a substring of the
\* strict plate shape as the specification words it, the extraction returns
\* the first such substring in upper case.
C17_StrictShapeExtracted ==
  (extracted /\ SpecStrictMatch(rawText) /= None)
    => plate = Some(toUpperCase(SpecStrictMatch(rawText)[1]))

----------------------------------------------------------------------------
(* C18 *)

\* the n characters of s from position i are all letters or digits
AllAlnum(s, i, n) == \A k \in i..(i + n - 1) : k <= Len(s) /\ s[k] \in AlnumI

\* the first run of 8 to 13 letters and digits in s: it starts at the first
\* place followed by eight of them and goes on while there are more, up to 13
FirstAlnumRun(s) ==
  LET starts == { i \in 1..Len(s) : AllAlnum(s, i, 8) }
  IN  IF starts = {}
        THEN None
        ELSE LET i == CHOOSE x \in starts : \A y \in starts : x <= y
                 fits == { n \in 8..13 : AllAlnum(s, i, n) }
                 n == CHOOSE x \in fits : \A y \in fits : x >= y
             IN  Some(SubSeq(s, i, i + n - 1))

\* C18: when the text, stripped of whitespace, has no match of the strict
\* shape and has a run of 8 to 13 letters and digits, the extraction returns
\* the first such run in upper case; "ABCDEFGHIJKLM", with whatever
\* whitespace, comes back whole.
C18_BroadRunExtracted ==
  /\ (extracted /\ SpecStrictMatch(rawText) = None
        /\ FirstAlnumRun(CleanText(rawText)) /= None)
       => plate = Some(toUpperCase(FirstAlnumRun(CleanText(rawText))[1]))
  /\ (extracted /\ sourceText = T_Thirteen) => plate = Some(T_Thirteen)

\* "ABCDEFGHIJKLM" with whitespace put into it was extracted whole
C18_Witness ==
  /\ extracted /\ sourceText = T_Thirteen
  /\ edits >= 1 /\ Len(rawText) > Len(sourceText)
  /\ plate = Some(T_Thirteen)

----------------------------------------------------------------------------
(* C19 *)

\* C19: whatever whitespace is put into a text or taken out of it, the
\* extraction returns what it returns on the text itself; "MH 12 AB 1234"
\* is cleaned to "MH12AB1234" and yields "MH12AB1234".
C19_WhitespaceInvariant ==
  /\ extracted => plate = ExtractedPlate[sourceText]
  /\ (extracted /\ sourceText = T_PlateSpaced)
       => /\ CleanText(rawText) = P_MH12AB1234
          /\ plate = Some(P_MH12AB1234)

\* "MH 12 AB 1234" lost a space and got a tab between two of its digits, and
\* still yields "MH12AB1234"
C19_Witness ==
  /\ extracted /\ sourceText = T_PlateSpaced
  /\ edits >= 2
  /\ Cardinality({ i \in DOMAIN rawText : rawText[i] = " " }) < 3
  /\ \E i \in 2..(Len(rawText) - 1) :
       rawText[i] = "\t" /\ rawText[i - 1] \in Digit /\ rawText[i + 1] \in Digit
  /\ plate = Some(P_MH12AB1234)

----------------------------------------------------------------------------
(* C20 *)

\* the texts that are too short: stripped of whitespace they have no match of
\* the strict shape and no eight letters and digits in a row
TooShortTexts ==
  { text \in RawTexts :
      SpecStrictPlate[text] = None /\ FirstAlnumRun(CleanText(text)) = None }

\* the backend gave the run nothing to extract a plate from
PrimaryGaveNoPlate(run) ==
  PrimaryFailed(run) \/ (PrimaryGaveText(run) /\ run.primResp.text \in TooShortTexts)

FallbackGaveNoPlate(run) ==
  FallbackFailed(run) \/ (run.fbResp.kind = "text" /\ run.fbResp.text \in TooShortTexts)

\* C20: "X1" is too short, a text that is too short yields null from the
\* adapter that read it, and a run in which neither backend gave a plate
\* ends NotFound.
C20_TooShortYieldsNull ==
  /\ T_X1 \in TooShortTexts
  /\ \A run \in Runs :
       /\ (PrimaryGaveText(run) /\ run.primResp.text \in TooShortTexts)
            => run.primRet = None /\ run.fallbackCalls = 1
       /\ (Ended(run) /\ run.fbResp.kind = "text" /\ run.fbResp.text \in TooShortTexts)
            => run.vehicleNumber = None
       /\ (Ended(run) /\ PrimaryGaveNoPlate(run) /\ FallbackGaveNoPlate(run))
            => /\ run.outcome = "NotFound"
               /\ run.vehicleNumber = None
               /\ run.cbCalls = 0

\* both backends read "X1" and the run ended NotFound
C20_Witness ==
  /\ \E run \in Runs :
       /\ Ended(run) /\ run.outcome = "NotFound"
       /\ PrimaryGaveText(run) /\ run.primResp.text = T_X1
       /\ run.fbResp = FallbackResponse("text", T_X1)
  /\ lastToast = "No Vehicle Number Found"

----------------------------------------------------------------------------
(* C21 *)

\* C21: a run on a selected file in which Primary returned null and Fallback
\* read "no plate visible" ends NotFound: no plate is found, none is passed
\* to the callback.
C21_NoPlateVisibleNotFound ==
  \A run \in Runs :
    ( /\ Ended(run) /\ run.src = "file"
      /\ PrimaryReturned(run) /\ run.primRet = None
      /\ run.fbResp = FallbackResponse("text", T_NoPlateVisible) )
    => /\ run.outcome = "NotFound"
       /\ run.vehicleNumber = None
       /\ run.cbCalls = 0

----------------------------------------------------------------------------
(* C22 *)

\* C22: the Primary adapter returns a plate only when the status is a
\* success status, the body is valid, the exit code is 1 and a first parsed
\* text is there, and the plate is then the extraction of that text; on every
\* other answer it returns null, and no answer makes the run end in the
\* hard fault.
C22_PrimarySuccessOnlyOnOkAnswer ==
  \A run \in Runs :
    PrimaryReturned(run)
      => /\ run.primRet /= None
              => /\ PrimaryGaveText(run)
                 /\ run.primRet = ExtractedPlate[run.primResp.text]
         /\ ~PrimaryGaveText(run) => run.primRet = None /\ run.fallbackCalls = 1
         /\ run.outcome /= "Fault"

\* the service answered with exit code 3 and a text that holds a plate; the
\* adapter returned null and the run went on to Fallback
C22_Witness ==
  \E run \in Runs :
    /\ run.primResp.net = "ok" /\ run.primResp.ok /\ run.primResp.exit = 3
    /\ run.primResp.text = T_PlateNl
    /\ run.primRet = None /\ run.fallbackCalls = 1

----------------------------------------------------------------------------
(* C25 *)

\* C25: when no run is in flight and a detected number is shown, the source
\* shown with it is the backend that produced it: the run that ended last
\* ended in Success with that number and that source.
C25_ResultShownWithSource ==
  (mounted /\ InFlight = 0 /\ detectedNumber /= << >>)
    => /\ ocrMethod \in { "OCR.space API", "Tesseract.js (fallback)" }
       /\ \A run \in Runs :
            Ended(run) => /\ run.outcome = "Success"
                          /\ run.vehicleNumber = Some(detectedNumber)
                          /\ run.usedMethod = ocrMethod

----------------------------------------------------------------------------
(* C27 *)

\* C27: while the component is mounted, isProcessing is true whenever a
\* backend call is outstanding.
C27_ProcessingWhileInFlight ==
  (mounted /\ InFlight > 0) => isProcessing

----------------------------------------------------------------------------
(* C28 *)

\* a plate made of A-Z and 0-9 only, 8 to 13 characters long
PlateShaped(s) ==
  /\ Len(s) >= 8 /\ Len(s) <= 13
  /\ \A i \in DOMAIN s : s[i] \in Upper \cup Digit

\* C28: every plate stored as detected or passed to the callback is made of
\* the characters A-Z and 0-9 only and is 8 to 13 characters long.
C28_PlateCharsAndLength ==
  /\ detectedNumber /= << >> => PlateShaped(detectedNumber)
  /\ \A run \in Runs : run.cbCalls > 0 => PlateShaped(run.cbArg[1])

\* a lower-case text with a plate in it was stored and passed on in upper case
C28_Witness ==
  \E run \in Runs :
    /\ run.outcome = "Success" /\ run.cbCalls = 1
    /\ run.fbResp = FallbackResponse("text", T_PlateLower)
    /\ run.cbArg = Some(T_PlateUpper)
    /\ detectedNumber = T_PlateUpper

----------------------------------------------------------------------------
(* C23 *)

\* the camera session: Closed, Open, or Capturing while a frame of the
\* stream that is held waits for its encoder callback
SessionState ==
  IF ~isCameraOpen THEN "Closed"
  ELSE IF blobQueue[stream] > 0 THEN "Capturing"
  ELSE "Open"

SessionStateNext ==
  IF ~isCameraOpen' THEN "Closed"
  ELSE IF blobQueue'[stream'] > 0 THEN "Capturing"
  ELSE "Open"

\* an encoder callback that comes with a blob
CaptureSucceeds == \E cs \in DOMAIN blobQueue : toBlobCallbackOf(cs, TRUE)

\* the step leaves the session closed, with no track live, and the run it
\* started has had no answer from a backend
ClosedAsRunStarts ==
  /\ ~isCameraOpen' /\ stream' = 0
  /\ \A s \in 1..MaxStreams : tracks'[s] /= "live"
  /\ runs' /= << >>
  /\ LET run == runs'[Len(runs')]
     IN  /\ run.src = "camera" /\ run.pc = "primary"
         /\ run.primResp = NoResponse /\ run.fbResp = NoFallbackResponse

----------------------------------------------------------------------------
(* C24 *)

----------------------------------------------------------------------------
(* C26 *)

\* C26: with every backend call coming back, a run that was started comes
\* to its end: it has exactly one of the outcomes Success, NotFound and hard
\* fault once it has ended and none before, the step that ends it resets
\* isProcessing, and the component does not stay in the processing state.
C26_RunsFinish ==
  /\ [](\A run \in Runs :
          IF Ended(run)
            THEN run.outcome \in { "Success", "NotFound", "Fault" }
            ELSE run.outcome = "none")
  /\ [][ (mounted /\ InFlight' < InFlight) => ~isProcessing' ]_vars
  /\ (InFlight > 0) ~> (InFlight = 0)
  /\ (mounted /\ isProcessing) ~> (~mounted \/ ~isProcessing)

\* a run that went through both backends has ended, and the flag is reset
C26_Witness ==
  /\ mounted /\ ~isProcessing /\ InFlight = 0
  /\ \E run \in Runs :
       /\ Ended(run) /\ run.outcome = "NotFound"
       /\ run.primaryCalls = 1 /\ run.fallbackCalls = 1


----------------------------------------------------------------------------
(* C29: the lookups of the entry form and the order they return in *)

\* C29: when the lookup of a vehicle number returns and that number is no
\* longer the one in the form, the form data stay as they are: a late
\* response for an earlier number never overwrites the auto-filled fields.
C29_NoStaleAutofill ==
  [][ \A vehicleNumber \in { Sanitize(value) : value \in RawNumbers } :
        \A vehicleData \in LookupResults :
          ( /\ fetchVehicleDataReturnOf(vehicleNumber, vehicleData)
            /\ vehicleNumber /= formData.vehicleNumber )
          => formData' = formData ]_vars

----------------------------------------------------------------------------
(* C30: the submit of the entry form *)

\* C30: a submit with an empty vehicle number, status or category, or with
\* no logged-in user, starts no insert and leaves the form data unchanged;
\* no submit changes the form data by itself, a successful insert resets
\* them to the defaults and a failed insert leaves them in place; the
\* submitting flag is true exactly while an insert is pending, so it is
\* false again once the insert has come back, with an error or without.
C30_SubmitGuardsAndReset ==
  /\ [][ ( /\ handleSubmit
           /\ \/ formData.vehicleNumber = << >>
              \/ formData.vehicleStatus = ""
              \/ formData.vehicleCategory = ""
              \/ ~user )
         => ( /\ ~insertPending'
              /\ ~isSubmitting'
              /\ formData' = formData ) ]_vars
  /\ [][ handleSubmit => formData' = formData ]_vars
  /\ [][ insertReturnOf(TRUE) => formData' = DefaultFormData ]_vars
  /\ [][ insertReturnOf(FALSE) => formData' = formData ]_vars
  /\ [][ insertReturn => ~isSubmitting' ]_vars
  /\ [](isSubmitting <=> insertPending)

\* a submit without a status has been turned down with the number and the
\* category entered, and they are still in the form
C30_Witness ==
  /\ formToast = "Error: Please fill in all mandatory fields."
  /\ formData.vehicleNumber /= << >>
  /\ formData.vehicleCategory /= ""
  /\ formData.vehicleStatus = ""
  /\ ~insertPending
  /\ ~isSubmitting

=============================================================================
